---- MODULE Spec2Model ----
(***************************************************************************)
(* AgentGateway: the control-plane surface (POST /mcp), the data-plane     *)
(* surface (/api/process, /api/status, /api/download), bearer-token        *)
(* verification, the RBAC engine and the retry / circuit-breaker wrappers  *)
(* around the two forwarding functions.                                    *)
(*                                                                         *)
(* Python strings are sequences of one-character strings, so that          *)
(* str.lower, str.strip and str.split are computed, not assumed.  None is  *)
(* the one-element sequence <<"<None>">>.                                  *)
(***************************************************************************)
EXTENDS Integers, Sequences, FiniteSets, TLC

\* ------------------------------------------------------------------ bounds
\* Number of requests handled concurrently (one asyncio task each).
NSlots == 2
\* Seconds the monotonic clock advances in one Tick of the model.
TickStep == 30
\* Largest value kept of a breaker's failure counter.
MaxFailureCount == 5
\* Requests followed from start-up on the control plane, over all inputs.
MaxAuthRequests == 1
\* Requests followed from start-up on the data plane, over all inputs.
MaxApiRequests == 1
\* Longest list of roles passed to the RBAC engine.
MaxRoles == 2
\* Processing jobs started after the application's start-up.
MaxJobs == 2

\* ------------------------------------------------------- program constants
FAILURE_THRESHOLD == 5
RECOVERY_TIMEOUT == 60
MAX_ATTEMPTS == 3

Min(a, b) == IF a < b THEN a ELSE b
Max(a, b) == IF a < b THEN b ELSE a

MaxServed == Max(MaxAuthRequests, MaxApiRequests)

\* ------------------------------------------------------------ Python str
None == << "<None>" >>

\* Python truthiness of an Optional[str]: None and "" are falsy.
Truthy(s) == s # None /\ s # << >>

UpperToLower ==
  [c \in {"A", "B", "E", "F", "H", "I", "N", "R"} |->
     CASE c = "A" -> "a" [] c = "B" -> "b" [] c = "E" -> "e" [] c = "F" -> "f"
       [] c = "H" -> "h" [] c = "I" -> "i" [] c = "N" -> "n" [] c = "R" -> "r"]

LowerChar(c) == IF c \in DOMAIN UpperToLower THEN UpperToLower[c] ELSE c

\* str.lower()
Lower(s) == [i \in 1..Len(s) |-> LowerChar(s[i])]

IsSpace(c) == c \in {" ", "\t"}

RECURSIVE LStrip(_)
LStrip(s) == IF s # << >> /\ IsSpace(Head(s)) THEN LStrip(Tail(s)) ELSE s

RECURSIVE RStrip(_)
RStrip(s) ==
  IF s # << >> /\ IsSpace(s[Len(s)]) THEN RStrip(SubSeq(s, 1, Len(s) - 1)) ELSE s

\* str.strip()
Strip(s) == RStrip(LStrip(s))

\* str.split(sep): always at least one field, empty fields are kept.
RECURSIVE SplitAcc(_, _, _)
SplitAcc(s, sep, cur) ==
  IF s = << >> THEN << cur >>
  ELSE IF Head(s) = sep THEN << cur >> \o SplitAcc(Tail(s), sep, << >>)
  ELSE SplitAcc(Tail(s), sep, Append(cur, Head(s)))

Split(s, sep) == SplitAcc(s, sep, << >>)

\* str.split(): fields are separated by runs of whitespace, none is empty.
SplitWs(s) == SelectSeq(SplitAcc([i \in 1..Len(s) |-> IF IsSpace(s[i]) THEN " " ELSE s[i]], " ", << >>),
                        LAMBDA f : f # << >>)

\* ------------------------------------------------------------ vocabulary
FINANCE == << "f", "i", "n", "a", "n", "c", "e" >>
HR == << "h", "r" >>
LEGAL == << "l", "e", "g", "a", "l" >>
ADMIN == << "a", "d", "m", "i", "n" >>
SECRET == << "s", "3", "c", "r", "3", "t" >>

FinanceUrl == "http://mcp-finance-service.local:8080"
HrUrl == "http://mcp-hr-service.local:8080"
LegalUrl == "http://mcp-legal-service.local:8080"
ApplicationUrl == "http://application-service.local:8000"
NoUrl == ""

VARIABLES
  settings,    \* config.Settings, read from the environment at start-up
  role_map,    \* RBACEngine._role_map, built from policies.yaml at start-up
  jwks,        \* JWTValidator._jwks, the cached key set
  breaker,     \* one CircuitBreaker per @circuit-decorated function
  slot,        \* the requests being handled, one asyncio task per slot
  finished,    \* the request whose handler returned in the latest step
  upstream,    \* history: per destination, the run of failed forwards
  served,      \* history: requests received so far, kept up to MaxServed
  engine_call, \* the latest call of an RBACEngine method and what it returned
  server_call, \* the latest request an MCP server handled and its response
  client,      \* the application's MCPClient: its call of call_mcp_server
  jobs,        \* FileProcessor.jobs, by processing id
  task,        \* per processing id, where its start_processing coroutine is
  reply        \* the latest response of a handler of the application

\* The state outside the gateway's request handling.
others == << engine_call, server_call, client, jobs, task, reply >>

\* The state of the gateway's request handling.
gateway == << jwks, breaker, slot, finished, upstream, served >>

vars == << settings, role_map, jwks, breaker, slot, finished, upstream, served,
           engine_call, server_call, client, jobs, task, reply >>

\* --------------------------------------------------------------- settings
DefaultSettings ==
  [rbac_enabled |-> TRUE, department_isolation |-> TRUE,
   service_token |-> None,
   mcp_finance_url |-> FinanceUrl, mcp_hr_url |-> HrUrl,
   mcp_legal_url |-> LegalUrl]

\* Environments the service is started in.
SettingsSet ==
  {[DefaultSettings EXCEPT !.rbac_enabled = rb, !.department_isolation = di,
                           !.service_token = st, !.mcp_legal_url = lu] :
     rb \in BOOLEAN, di \in BOOLEAN, st \in {None, SECRET},
     lu \in {LegalUrl, NoUrl}}

\* -------------------------------------------------------------- RBAC engine
Permission(resource, actions) == [resource |-> resource, actions |-> actions]

\* _load_policy falls back to RBACPolicy(roles=[]) when the file is unreadable.
EmptyPolicy == << >>

DepartmentPolicy ==
  << [name |-> FINANCE,
      permissions |-> << Permission("mcp-finance-server", {"read", "write"}) >>],
     [name |-> HR,
      permissions |-> << Permission("mcp-hr-server", {"read"}) >>],
     [name |-> LEGAL,
      permissions |-> << Permission("mcp-legal-server", {"read"}) >>],
     [name |-> ADMIN,
      permissions |-> << Permission("mcp-finance-server", {"read", "write"}),
                         Permission("mcp-hr-server", {"read", "write"}),
                         Permission("mcp-legal-server", {"read", "write"}) >>] >>

CrossPolicy ==
  << [name |-> FINANCE,
      permissions |-> << Permission("mcp-finance-server", {"write"}) >>],
     [name |-> HR,
      permissions |-> << Permission("mcp-hr-server", {"read"}),
                         Permission("mcp-finance-server", {"read"}) >>] >>

PolicySet == {EmptyPolicy, DepartmentPolicy, CrossPolicy}

\* RBACEngine.__init__: {role.name: role for role in self.policy.roles};
\* a later role of the same name replaces an earlier one.
RoleMapOf(policy) ==
  [n \in {policy[i].name : i \in 1..Len(policy)} |->
     LET winner == CHOOSE i \in 1..Len(policy) :
                   /\ policy[i].name = n
                   /\ \A j \in 1..Len(policy) : policy[j].name = n => j <= i
     IN policy[winner].permissions]

RECURSIVE PermissionsGrant(_, _, _)
PermissionsGrant(permissions, resource, action) ==
  IF permissions = << >> THEN FALSE
  ELSE IF Head(permissions).resource = resource
          /\ action \in Head(permissions).actions THEN TRUE
  ELSE PermissionsGrant(Tail(permissions), resource, action)

\* RBACEngine.check_permission over a given role map.
RECURSIVE CheckPermissionIn(_, _, _, _)
CheckPermissionIn(rm, roles, resource, action) ==
  IF roles = << >> THEN FALSE
  ELSE IF Head(roles) \in DOMAIN rm
          /\ PermissionsGrant(rm[Head(roles)], resource, action) THEN TRUE
  ELSE CheckPermissionIn(rm, Tail(roles), resource, action)

\* Mutant: only the first role of the list is looked at.
check_permission_first_role(roles, resource, action) ==
  /\ roles # << >>
  /\ CheckPermissionIn(role_map, << Head(roles) >>, resource, action)

\* Mutant: a role the policy does not define denies the request.
check_permission_strict(roles, resource, action) ==
  /\ \A i \in 1..Len(roles) : roles[i] \in DOMAIN role_map
  /\ CheckPermissionIn(role_map, roles, resource, action)

check_permission(roles, resource, action) ==
  CheckPermissionIn(role_map, roles, resource, action)

\* RBACEngine.get_accessible_resources; the list is built from a set, its
\* order is not determined, so it is kept as a set.
RECURSIVE AccessibleIn(_, _)
AccessibleIn(rm, roles) ==
  IF roles = << >> THEN {}
  ELSE (IF Head(roles) \in DOMAIN rm
          THEN {rm[Head(roles)][k].resource : k \in 1..Len(rm[Head(roles)])}
        ELSE {})
       \cup AccessibleIn(rm, Tail(roles))

get_accessible_resources(roles) == AccessibleIn(role_map, roles)

\* RBACEngine.map_department_to_server
map_department_to_server(department) ==
  LET d == Lower(department) IN
  CASE d = FINANCE -> "mcp-finance-server"
    [] d = HR -> "mcp-hr-server"
    [] d = LEGAL -> "mcp-legal-server"
    [] OTHER -> "None"

\* ------------------------------------------------------------ control plane
\* validate_service_token: 0 when the token is accepted, else the status.
validate_service_token(x_service_token) ==
  IF ~Truthy(x_service_token) THEN 401
  ELSE IF Truthy(settings.service_token)
          /\ x_service_token # settings.service_token THEN 401
  ELSE 0

\* get_mcp_server_url; the empty string stands for "no URL".
get_mcp_server_url(server_type) ==
  LET t == Lower(server_type) IN
  CASE t = FINANCE -> settings.mcp_finance_url
    [] t = HR -> settings.mcp_hr_url
    [] t = LEGAL -> settings.mcp_legal_url
    [] OTHER -> NoUrl

\* MCPRequest.params: None, or a dict of which the gateway reads the keys
\* "department" and "server_type" and an MCP server the keys "name" and "uri"
\* (None: the key is absent); other says whether it holds any other key.
NoParams ==
  [isNone |-> TRUE, other |-> FALSE, department |-> None, server_type |-> None,
   name |-> None, uri |-> None]

Params(department, server_type, other) ==
  [isNone |-> FALSE, other |-> other, department |-> department,
   server_type |-> server_type, name |-> None, uri |-> None]

\* bool(params): a dict is truthy when it has a key.
ParamsTruthy(params) ==
  /\ ~params.isNone
  /\ \/ params.other \/ params.department # None \/ params.server_type # None
     \/ params.name # None \/ params.uri # None

extract_department_from_request(params) ==
  IF ~ParamsTruthy(params) THEN None
  ELSE IF Truthy(params.department) THEN params.department
  ELSE IF Truthy(params.server_type) THEN params.server_type
  ELSE None

\* roles = [role.strip() for role in x_user_roles.split(",")]
ParseRoles(x_user_roles) ==
  LET fields == Split(x_user_roles, ",") IN
  [i \in 1..Len(fields) |-> Strip(fields[i])]

AuditLog(status_code, error) == [status_code |-> status_code, error |-> error]

\* Mutant: isolation is waived for a caller RBAC has granted the resource.
DepartmentIsolatedUnlessGranted(department, roles) ==
  /\ Lower(department) \notin {Lower(roles[i]) : i \in 1..Len(roles)}
  /\ ~check_permission(roles, map_department_to_server(department), "read")

\* if department.lower() not in [role.lower() for role in roles]
DepartmentIsolated(department, roles) ==
  Lower(department) \notin {Lower(roles[i]) : i \in 1..Len(roles)}

\* route_mcp_request up to, not including, the call of forward_to_mcp_server:
\* the response status (0 when the request goes on to be forwarded), the
\* audit entries logged so far and the URL to forward to.
Decision(status_code, detail, audit, department, server_url) ==
  [status_code |-> status_code, detail |-> detail, audit |-> audit,
   department |-> department, server_url |-> server_url]

AuthorizeMcp(x_service_token, x_user_roles, params) ==
  LET department == extract_department_from_request(params)
      roles == ParseRoles(x_user_roles)
      resource == map_department_to_server(department)
      server_url == get_mcp_server_url(department)
  IN
  IF validate_service_token(x_service_token) # 0
    THEN Decision(401, IF ~Truthy(x_service_token) THEN "Missing service token"
                       ELSE "Invalid service token", << >>, None, NoUrl)
  ELSE IF ~Truthy(department)
    THEN Decision(400, "Missing department in request", << >>, None, NoUrl)
  ELSE IF settings.rbac_enabled /\ Truthy(x_user_roles) /\ resource = "None"
    THEN Decision(400, "Unknown department", << >>, department, NoUrl)
  ELSE IF /\ settings.rbac_enabled /\ Truthy(x_user_roles)
          /\ ~check_permission(roles, resource, "read")
    THEN Decision(403, "Access denied",
                  << AuditLog(403, "RBAC permission denied") >>, department, NoUrl)
  ELSE IF /\ settings.department_isolation /\ Truthy(x_user_roles)
          /\ DepartmentIsolated(department, roles)
    THEN Decision(403, "Access denied: department isolation",
                  << AuditLog(403, "Department isolation violation") >>,
                  department, NoUrl)
  ELSE IF server_url = NoUrl
    THEN Decision(404, "MCP server not found", << >>, department, NoUrl)
  ELSE Decision(0, "", << >>, department, server_url)

\* -------------------------------------------------------------- MCP server
\* The methods BaseMCPServer.handle_request dispatches on.
SupportedMethods == {"tools/list", "tools/call", "resources/list", "resources/read"}

METHOD_NOT_FOUND == -32601
INTERNAL_ERROR == -32603

\* HRMCPServer: the names in _tools and the URIs in _resources after
\* _register_tools and _register_resources.
RegisteredTools ==
  { << "get_employee_data" >>, << "get_org_chart" >>, << "get_leave_balance" >> }

RegisteredResources ==
  { << "hr://employees" >>, << "hr://departments" >>, << "hr://policies" >> }

MCPRequest(id, method, params) == [id |-> id, method |-> method, params |-> params]

\* MCPResponse: result is None or the dict of the method's response model,
\* of which the kind and the isError member are kept; error is None (0) or
\* the code of the MCPError.
NoResult == [kind |-> "None", isError |-> FALSE]

MCPResponse(id, result, error) == [id |-> id, result |-> result, error |-> error]

\* What a method of the server returns to handle_request: the response
\* model, and whether _execute_tool or _read_resource_content was invoked.
Returned(kind, isError, invoked) ==
  [result |-> [kind |-> kind, isError |-> isError], invoked |-> invoked]

\* Mutant: a tool is executed whether or not it is registered.
call_tool_unregistered(name, raises) ==
  Returned("ToolCallResponse", raises, TRUE)

\* call_tool: an unregistered name is answered without executing anything;
\* an exception of _execute_tool (raises) is caught and reported as isError.
call_tool(name, raises) ==
  IF name \notin RegisteredTools
    THEN Returned("ToolCallResponse", TRUE, FALSE)
  ELSE Returned("ToolCallResponse", raises, TRUE)

\* read_resource: ResourceReadResponse has no isError member.
read_resource(uri, raises) ==
  IF uri \notin RegisteredResources
    THEN Returned("ResourceReadResponse", FALSE, FALSE)
  ELSE Returned("ResourceReadResponse", FALSE, TRUE)

\* ToolCallParams(**request.params) and ResourceReadParams(**request.params)
\* raise TypeError when params is None and ValidationError when the
\* required key is absent.
ParamsRaise(params, key) == params.isNone \/ params[key] = None

\* handle_request: the response, and whether the server's abstract method
\* was invoked.  raises says whether that method raises when invoked.
handle_request(request, raises) ==
  LET Result(ret) ==
        [response |-> MCPResponse(request.id, ret.result, 0), invoked |-> ret.invoked]
      Error(code) ==
        [response |-> MCPResponse(request.id, NoResult, code), invoked |-> FALSE]
  IN
  IF request.method = "tools/list"
    THEN Result(Returned("ToolsListResponse", FALSE, FALSE))
  ELSE IF request.method = "tools/call"
    THEN IF ParamsRaise(request.params, "name") THEN Error(INTERNAL_ERROR)
         ELSE Result(call_tool(request.params.name, raises))
  ELSE IF request.method = "resources/list"
    THEN Result(Returned("ResourcesListResponse", FALSE, FALSE))
  ELSE IF request.method = "resources/read"
    THEN IF ParamsRaise(request.params, "uri") THEN Error(INTERNAL_ERROR)
         ELSE Result(read_resource(request.params.uri, raises))
  ELSE Error(METHOD_NOT_FOUND)

\* -------------------------------------------------------------- data plane
\* JWTValidator.extract_token
extract_token(authorization_header) ==
  IF ~Truthy(authorization_header) THEN None
  ELSE LET parts == SplitWs(authorization_header) IN
       IF Len(parts) # 2 \/ Lower(parts[1]) # << "b", "e", "a", "r", "e", "r" >>
         THEN None
       ELSE parts[2]

\* A bearer token is one symbol of the header; Tokens gives what python-jose
\* finds in it: whether its header decodes, the kid of the header, the key
\* that signed it, whether exp is in the past, token_use, cognito:groups.
NoGroups == << None >>

Token(kid, signed_by, expired, token_use, groups) ==
  [well_formed |-> TRUE, kid |-> kid, signed_by |-> signed_by,
   expired |-> expired, token_use |-> token_use, groups |-> groups]

Tokens ==
  [t \in {"tok:access", "tok:nogroups", "tok:emptygroups", "tok:id",
          "tok:expired", "tok:nokid", "tok:rotated", "tok:forged"} |->
     CASE t = "tok:access" -> Token("k1", "key1", FALSE, "access", << FINANCE, ADMIN >>)
       [] t = "tok:nogroups" -> Token("k1", "key1", FALSE, "access", NoGroups)
       [] t = "tok:emptygroups" -> Token("k1", "key1", FALSE, "access", << >>)
       [] t = "tok:id" -> Token("k1", "key1", FALSE, "id", << HR >>)
       [] t = "tok:expired" -> Token("k1", "key1", TRUE, "access", << HR >>)
       [] t = "tok:nokid" -> Token("", "key1", FALSE, "access", << HR >>)
       [] t = "tok:rotated" -> Token("k2", "key2", FALSE, "access", << LEGAL, HR >>)
       [] t = "tok:forged" -> Token("k1", "attacker", FALSE, "access", << ADMIN >>)]

Malformed ==
  [well_formed |-> FALSE, kid |-> "", signed_by |-> "", expired |-> FALSE,
   token_use |-> "", groups |-> NoGroups]

TokenOf(token) ==
  IF Len(token) = 1 /\ token[1] \in DOMAIN Tokens THEN Tokens[token[1]]
  ELSE Malformed

\* The key sets the identity provider publishes, before and after a rotation.
Jwk(kid, key) == [kid |-> kid, key |-> key]
KeySets == { << Jwk("k1", "key1") >>, << Jwk("k1", "key1"), Jwk("k2", "key2") >> }

\* fetched and keys are the cache (`_jwks is None`, `_jwks["keys"]`); missed
\* is history: some token's kid was looked up in the filled cache and not
\* found.
NoJwks == [fetched |-> FALSE, keys |-> << >>, missed |-> FALSE]
Jwks(keys) == [fetched |-> TRUE, keys |-> keys, missed |-> FALSE]

\* for jwk_key in jwks.get("keys", []): first key of that kid, "" when none.
RECURSIVE FindKey(_, _)
FindKey(keys, kid) ==
  IF keys = << >> THEN ""
  ELSE IF Head(keys).kid = kid THEN Head(keys).key
  ELSE FindKey(Tail(keys), kid)

NoClaims == [valid |-> FALSE, groups |-> NoGroups]

\* `if not key`: the token's header names a kid that no key of the set has.
KeyNotFound(token, keys) ==
  /\ TokenOf(token).well_formed /\ TokenOf(token).kid # ""
  /\ FindKey(keys, TokenOf(token).kid) = ""

\* Mutant: the token_use claim is not looked at.
validate_token_any_use(token, keys) ==
  LET t == TokenOf(token)
      key == FindKey(keys, t.kid)
  IN
  IF ~t.well_formed THEN NoClaims
  ELSE IF t.kid = "" THEN NoClaims
  ELSE IF key = "" THEN NoClaims
  ELSE IF t.signed_by # key \/ t.expired THEN NoClaims
  ELSE [valid |-> TRUE, groups |-> t.groups]

\* JWTValidator.validate_token once get_jwks has returned keys: the claims,
\* or NoClaims where the code returns None.
validate_token(token, keys) ==
  LET t == TokenOf(token)
      key == FindKey(keys, t.kid)
  IN
  IF ~t.well_formed THEN NoClaims
  ELSE IF t.kid = "" THEN NoClaims
  ELSE IF key = "" THEN NoClaims
  ELSE IF t.signed_by # key \/ t.expired THEN NoClaims
  ELSE IF t.token_use # "access" THEN NoClaims
  ELSE [valid |-> TRUE, groups |-> t.groups]

\* Mutant: the department is the last group, not the first.
extract_user_info_last_group(claims) ==
  LET roles == IF claims.groups = NoGroups THEN << >> ELSE claims.groups IN
  [roles |-> roles,
   department |-> IF roles # << >> THEN roles[Len(roles)]
                  ELSE << "u", "n", "k", "n", "o", "w", "n" >>]

\* JWTValidator.extract_user_info
extract_user_info(claims) ==
  LET roles == IF claims.groups = NoGroups THEN << >> ELSE claims.groups IN
  [roles |-> roles,
   department |-> IF roles # << >> THEN roles[1]
                  ELSE << "u", "n", "k", "n", "o", "w", "n" >>]

NoUser == [roles |-> << >>, department |-> None]

\* ------------------------------------------------------- circuit breaker
Functions == {"forward_to_mcp_server", "forward_to_application"}
Destinations == {FinanceUrl, HrUrl, LegalUrl, ApplicationUrl}

\* state, failure_count and age (monotonic() - _opened) are the breaker's
\* fields; reopened is history: the breaker was last opened by the failure
\* of a call admitted in the half-open state and failing in it.
ClosedBreaker ==
  [state |-> "closed", failure_count |-> 0, age |-> 0, reopened |-> FALSE]

\* CircuitBreaker.state: an open breaker whose window has run out reads
\* half_open; age is monotonic() - _opened, kept up to RECOVERY_TIMEOUT.
State(b) ==
  IF b.state = "open" /\ b.age >= RECOVERY_TIMEOUT THEN "half_open" ELSE b.state

\* CircuitBreaker.opened
Opened(b) == State(b) = "open"

\* Mutant: a success closes the circuit and keeps the failure count.
CallSucceededKeepsCount(b) == [ClosedBreaker EXCEPT !.failure_count = b.failure_count]

\* CircuitBreaker.__call_succeeded
CallSucceeded(b) == ClosedBreaker

\* CircuitBreaker.__call_failed
\* (the count is kept up to MaxFailureCount: it is only compared with the
\* threshold and reset to 0).
CallFailed(b) ==
  LET n == IF b.failure_count < MaxFailureCount THEN b.failure_count + 1
           ELSE b.failure_count
  IN IF n >= FAILURE_THRESHOLD
       THEN [state |-> "open", failure_count |-> n, age |-> 0,
             reopened |-> FALSE]
     ELSE [b EXCEPT !.failure_count = n]

\* The breaker that guards a call: the one of the decorated function.
BreakerOf(fn, server_url) == fn

\* -------------------------------------------------------------- MCP client
\* MCPClient.service_token, the token the application is configured with.
ClientServiceToken == SECRET

CLIENT_MAX_ATTEMPTS == 3

\* _create_mcp_request: params enter the envelope only when truthy.
create_mcp_request(id, method, params) ==
  MCPRequest(id, method, IF ParamsTruthy(params) THEN params ELSE NoParams)

\* The headers call_mcp_server sends.
ClientHeaders(server_type) ==
  [h \in {"Content-Type", "Authorization", "X-MCP-Server-Type"} |->
     CASE h = "Content-Type" -> << "application/json" >>
       [] h = "Authorization" ->
            << "B", "e", "a", "r", "e", "r", " " >> \o ClientServiceToken
       [] h = "X-MCP-Server-Type" -> server_type]

\* Header(None): the value of a header of the request, None when absent.
Header(headers, name) == IF name \in DOMAIN headers THEN headers[name] ELSE None

\* call_tool and read_resource: the params they pass to call_mcp_server.
ToolCall(tool_name) == [Params(None, None, TRUE) EXCEPT !.name = tool_name]

ResourceRead(resource_uri) == [Params(None, None, FALSE) EXCEPT !.uri = resource_uri]

\* The except clauses of call_mcp_server: HTTPStatusError, TimeoutException
\* and every other Exception are each re-raised as MCPClientError.
Wrapped(cause) == "MCPClientError"

\* retry=retry_if_exception_type((httpx.HTTPError, httpx.TimeoutException)):
\* the subclasses of httpx.HTTPError, httpx.TimeoutException being one.
retry_if_exception_type(exception) ==
  exception \in {"HTTPStatusError", "ConnectError", "ReadTimeout"}

\* @retry(stop=stop_after_attempt(3), ..., reraise=True) after an attempt of
\* call_mcp_server in which cause was raised inside the try block.
AfterAttempt(c, cause) ==
  IF retry_if_exception_type(Wrapped(cause)) /\ c.attempt < CLIENT_MAX_ATTEMPTS
    THEN [c EXCEPT !.pc = "attempt", !.attempt = c.attempt + 1]
  ELSE [c EXCEPT !.pc = "raised", !.raised = Wrapped(cause), !.cause = cause]

\* What the try block does with the gateway's response: raise_for_status,
\* then `"error" in mcp_response`; the body of an MCP server is a serialised
\* MCPResponse, which always has the key, with null for no error, and
\* error.get then raises AttributeError.
ResponseRaises(status_code, error) ==
  IF status_code >= 400 THEN "HTTPStatusError"
  ELSE IF error = 0 THEN "AttributeError"
  ELSE "MCPClientError"

NoClientCall ==
  [pc |-> "idle", server_type |-> None, method |-> "", params |-> NoParams,
   request |-> MCPRequest("", "", NoParams), headers |-> << >>,
   attempt |-> 0, raised |-> "", cause |-> ""]

\* ------------------------------------------------------------- application
\* Processing ids, in the order uuid4 hands them out.
ProcessingIds == 1..MaxJobs

\* ProcessingJob; None stands for an Optional field that is not set.
NoJob ==
  [status |-> "", mcp_server_type |-> None, output_s3_key |-> None,
   completed_at |-> None, error_message |-> None, download_url |-> None,
   download_url_expires_at |-> None]

\* start_processing: ProcessingJob(..., status="pending", ...).
NewJob(mcp_server_type) ==
  [NoJob EXCEPT !.status = "pending", !.mcp_server_type = mcp_server_type]

\* _process_file, before its try block.
Processing(job) == [job EXCEPT !.status = "processing"]

\* Mutant: a completed job is left without its download URL.
CompletedWithoutUrl(job, n) ==
  [job EXCEPT !.status = "completed",
              !.output_s3_key = << "processed/", n >>,
              !.completed_at = << "utcnow" >>]

\* _process_file, "Update job status" after the upload and the presigned URL.
Completed(job, n) ==
  [job EXCEPT !.status = "completed",
              !.output_s3_key = << "processed/", n >>,
              !.completed_at = << "utcnow" >>,
              !.download_url = << "https://", n >>,
              !.download_url_expires_at = << "utcnow + 1h" >>]

\* str(e) of the exceptions the steps of _process_file raise.
StepErrors ==
  [download |-> "ClientError: NoSuchKey", mcp |-> "MCPClientError",
   enrich |-> "MemoryError", upload |-> "ClientError: AccessDenied",
   presign |-> "ClientError: presign"]

\* The except clause of _process_file that catches the exception of step,
\* then, after its raise, the except clause of start_processing, which
\* writes the same three fields again.
Failed(job, step) ==
  LET in_process_file ==
        [job EXCEPT !.status = "failed",
                    !.error_message =
                       IF step = "mcp" THEN << "MCP error: ", StepErrors[step] >>
                       ELSE << StepErrors[step] >>,
                    !.completed_at = << "utcnow" >>]
  IN [in_process_file EXCEPT !.status = "failed",
                             !.error_message = << StepErrors[step] >>,
                             !.completed_at = << "utcnow" >>]

\* A start_processing coroutine: where it is, and the step whose exception
\* ended it ("" when none did).
NoTask == [pc |-> "none", failure |-> ""]

\* The response of a handler: process_file, get_status or get_download_url.
NoReply ==
  [handler |-> "", processing_id |-> 0, status_code |-> 0, status |-> "",
   download_url |-> None]

Reply(handler, processing_id, status_code, status, download_url) ==
  [handler |-> handler, processing_id |-> processing_id,
   status_code |-> status_code, status |-> status, download_url |-> download_url]

\* Mutant: only a job that is still being processed is refused.
download_refused_while_processing(job) == job.status = "processing"

\* get_download_url of main.py: `if job.status != "completed"` raises 400.
download_refused(job) == job.status # "completed"

\* ------------------------------------------------------------------ state
IdleSlot ==
  [pc |-> "idle", plane |-> "",
   x_service_token |-> None, x_user_roles |-> None,
   id |-> "", method |-> "", params |-> NoParams,
   authorization |-> None, jwks |-> << >>, user_info |-> NoUser,
   department |-> None, server_url |-> NoUrl,
   attempt |-> 0, probe |-> FALSE, exc |-> "", servers |-> {},
   status_code |-> 0, detail |-> "", audit |-> << >>, upstream_status |-> 0,
   error |-> 0]

NoRun == [fails |-> 0, age |-> 0]

NoCall ==
  [fn |-> "", roles |-> << >>, resource |-> "", action |-> "",
   result |-> FALSE, resources |-> {}]

NoServerCall ==
  [request |-> MCPRequest("", "", NoParams),
   response |-> MCPResponse("", NoResult, 0), invoked |-> FALSE]

Init ==
  /\ settings \in SettingsSet
  /\ role_map \in {RoleMapOf(p) : p \in PolicySet}
  /\ jwks = NoJwks
  /\ breaker = [f \in Functions |-> ClosedBreaker]
  /\ slot = [r \in 1..NSlots |-> IdleSlot]
  /\ finished = IdleSlot
  /\ upstream = [d \in Destinations |-> NoRun]
  /\ served = 0
  /\ engine_call = NoCall
  /\ server_call = NoServerCall
  /\ client = NoClientCall
  /\ jobs = [n \in ProcessingIds |-> NoJob]
  /\ task = [n \in ProcessingIds |-> NoTask]
  /\ reply = NoReply

\* rbac_engine.check_permission(roles, resource, action) is called and returns.
CheckPermission(roles, resource, action) ==
  /\ engine_call' = [fn |-> "check_permission", roles |-> roles,
                     resource |-> resource, action |-> action,
                     result |-> check_permission(roles, resource, action),
                     resources |-> {}]
  /\ UNCHANGED << gateway, settings, role_map, server_call, client, jobs, task, reply >>

\* rbac_engine.get_accessible_resources(roles) is called and returns.
GetAccessibleResources(roles) ==
  /\ engine_call' = [fn |-> "get_accessible_resources", roles |-> roles,
                     resource |-> "", action |-> "", result |-> FALSE,
                     resources |-> get_accessible_resources(roles)]
  /\ UNCHANGED << gateway, settings, role_map, server_call, client, jobs, task, reply >>

\* POST /mcp of an MCP server: handle_mcp_request awaits handle_request and
\* returns its response.
HandleRequest(id, method, params, raises) ==
  LET handled == handle_request(MCPRequest(id, method, params), raises) IN
  /\ server_call' = [request |-> MCPRequest(id, method, params),
                     response |-> handled.response,
                     invoked |-> handled.invoked]
  /\ UNCHANGED << gateway, settings, role_map, engine_call, client, jobs, task, reply >>

\* No coroutine of the application is between two statements that run
\* without suspending; only then does the event loop run another one.
Quiet == \A n \in ProcessingIds : task[n].pc # "created"

\* POST /process: process_file and, in it, start_processing up to and
\* including self.jobs[processing_id] = job.
ProcessFile(mcp_server_type) ==
  /\ Quiet
  /\ IF mcp_server_type \notin {FINANCE, HR, LEGAL}
       THEN /\ reply' = Reply("process", 0, 400, "", None)
            /\ UNCHANGED << jobs, task >>
     ELSE /\ \E n \in ProcessingIds :
               /\ task[n].pc = "none"
               /\ \A m \in 1..(n - 1) : task[m].pc # "none"
               /\ jobs' = [jobs EXCEPT ![n] = NewJob(mcp_server_type)]
               /\ task' = [task EXCEPT ![n].pc = "created"]
          /\ UNCHANGED reply
  /\ UNCHANGED << gateway, settings, role_map, engine_call, server_call, client >>

\* start_processing goes on into _process_file, up to the await of
\* s3_client.download_file.
BeginProcessing(n) ==
  /\ task[n].pc = "created"
  /\ jobs' = [jobs EXCEPT ![n] = Processing(jobs[n])]
  /\ task' = [task EXCEPT ![n].pc = "download"]
  /\ UNCHANGED << gateway, settings, role_map, engine_call, server_call, client,
                  reply >>

\* download_file returns the content; _process_file awaits call_tool.
DownloadReturns(n) ==
  /\ Quiet /\ task[n].pc = "download"
  /\ task' = [task EXCEPT ![n].pc = "mcp"]
  /\ UNCHANGED << gateway, settings, role_map, engine_call, server_call, client,
                  jobs, reply >>

\* call_tool returns the MCP data; _enrich_file runs and _process_file
\* awaits upload_file.
CallToolReturns(n) ==
  /\ Quiet /\ task[n].pc = "mcp"
  /\ task' = [task EXCEPT ![n].pc = "upload"]
  /\ UNCHANGED << gateway, settings, role_map, engine_call, server_call, client,
                  jobs, reply >>

\* upload_file returns and generate_presigned_url returns the URL: the job
\* is completed, start_processing returns it and process_file answers.
UploadReturns(n) ==
  /\ Quiet /\ task[n].pc = "upload"
  /\ jobs' = [jobs EXCEPT ![n] = Completed(jobs[n], n)]
  /\ task' = [task EXCEPT ![n].pc = "returned"]
  /\ reply' = Reply("process", n, 202, jobs'[n].status, None)
  /\ UNCHANGED << gateway, settings, role_map, engine_call, server_call, client >>

\* The step the coroutine is at, or the synchronous step that follows it
\* (_enrich_file after call_tool, generate_presigned_url after upload_file),
\* raises: both except clauses run, start_processing returns the job and
\* process_file answers.
StepRaises(n, step) ==
  /\ Quiet
  /\ \/ task[n].pc = "download" /\ step = "download"
     \/ task[n].pc = "mcp" /\ step \in {"mcp", "enrich"}
     \/ task[n].pc = "upload" /\ step \in {"upload", "presign"}
  /\ jobs' = [jobs EXCEPT ![n] = Failed(jobs[n], step)]
  /\ task' = [task EXCEPT ![n] = [pc |-> "returned", failure |-> step]]
  /\ reply' = Reply("process", n, 202, jobs'[n].status, None)
  /\ UNCHANGED << gateway, settings, role_map, engine_call, server_call, client >>

\* GET /status/{processing_id}
GetStatus(n) ==
  /\ Quiet
  /\ reply' = IF jobs[n] = NoJob THEN Reply("status", n, 404, "", None)
              ELSE Reply("status", n, 200, jobs[n].status, None)
  /\ UNCHANGED << gateway, settings, role_map, engine_call, server_call, client,
                  jobs, task >>

\* GET /download/{processing_id}: get_download_url of main.py and, in it,
\* FileProcessor.get_download_url.  expired says whether the job's URL has
\* run out, raises whether generate_presigned_url raises.
GetDownloadUrl(n, expired, raises) ==
  /\ Quiet
  /\ IF jobs[n] = NoJob
       THEN reply' = Reply("download", n, 404, "", None) /\ UNCHANGED jobs
     ELSE IF download_refused(jobs[n])
       THEN reply' = Reply("download", n, 400, jobs[n].status, None) /\ UNCHANGED jobs
     ELSE IF jobs[n].status # "completed" \/ jobs[n].output_s3_key = None
       THEN reply' = Reply("download", n, 500, jobs[n].status, None) /\ UNCHANGED jobs
     ELSE IF /\ jobs[n].download_url # None
             /\ jobs[n].download_url_expires_at # None /\ ~expired
       THEN /\ reply' = Reply("download", n, 200, jobs[n].status, jobs[n].download_url)
            /\ UNCHANGED jobs
     ELSE IF raises
       THEN reply' = Reply("download", n, 500, jobs[n].status, None) /\ UNCHANGED jobs
     ELSE /\ jobs' = [jobs EXCEPT ![n].download_url = << "https://", n, "renewed" >>,
                                  ![n].download_url_expires_at = << "utcnow + 1h" >>]
          /\ reply' = Reply("download", n, 200, jobs[n].status, jobs'[n].download_url)
  /\ UNCHANGED << gateway, settings, role_map, engine_call, server_call, client,
                  task >>

\* A request is taken by the first task slot that is free.
Free(r) ==
  /\ slot[r].pc = "idle"
  /\ \A q \in 1..(r - 1) : slot[q].pc # "idle"

\* The task of slot r goes on as s, or has returned its response.
Settle(r, s) ==
  IF s.pc = "done"
    THEN /\ slot' = [slot EXCEPT ![r] = IdleSlot]
         /\ finished' = s
  ELSE /\ slot' = [slot EXCEPT ![r] = s]
       /\ finished' = IdleSlot

\* The handler's exit: the response and, when the handler logs one, the
\* audit entry of that exit.
Respond(s, status_code, detail, audit) ==
  [s EXCEPT !.pc = "done", !.probe = FALSE,
            !.status_code = status_code, !.detail = detail,
            !.audit = s.audit \o audit]

\* The wrapper of @circuit around the @retry-wrapped function, entered by a
\* handler's await: an open breaker raises CircuitBreakerError, which the
\* handlers catch as Exception; otherwise the first attempt goes out.
CallForward(s, fn, server_url) ==
  LET b == breaker[BreakerOf(fn, server_url)]
      t == [s EXCEPT !.server_url = server_url]
  IN IF Opened(b)
       THEN Respond(t, 500, "Internal server error",
                    << AuditLog(500, "CircuitBreakerError") >>)
     ELSE [t EXCEPT !.pc = "inflight", !.attempt = 1,
                    !.probe = (State(b) = "half_open")]

FunctionOf(s) ==
  IF s.plane = "mcp" THEN "forward_to_mcp_server" ELSE "forward_to_application"

\* POST /mcp: route_mcp_request up to its first suspension.
ReceiveMcpRequest(r, x_service_token, x_user_roles, mcp_request) ==
  /\ Free(r)
  /\ LET params == mcp_request.params
         d == AuthorizeMcp(x_service_token, x_user_roles, params)
         s == [IdleSlot EXCEPT !.plane = "mcp",
                               !.x_service_token = x_service_token,
                               !.x_user_roles = x_user_roles,
                               !.id = mcp_request.id,
                               !.method = mcp_request.method,
                               !.params = params,
                               !.department = d.department]
     IN IF d.status_code # 0
          THEN /\ Settle(r, Respond(s, d.status_code, d.detail, d.audit))
        ELSE /\ Settle(r, CallForward(s, "forward_to_mcp_server", d.server_url))
  /\ served' = Min(served + 1, MaxServed)
  /\ UNCHANGED << settings, role_map, jwks, breaker, upstream >>

\* POST /mcp from a caller other than the application's MCPClient.
RouteMcpRequest(r, x_service_token, x_user_roles, mcp_request) ==
  /\ ReceiveMcpRequest(r, x_service_token, x_user_roles, mcp_request)
  /\ UNCHANGED others

\* A caller awaits call_mcp_server(server_type, method, params): the first
\* attempt is about to run.
CallMcpServer(server_type, method, params) ==
  /\ client.pc \in {"idle", "raised"}
  /\ client' = [NoClientCall EXCEPT !.pc = "attempt", !.server_type = server_type,
                                    !.method = method, !.params = params,
                                    !.attempt = 1]
  /\ UNCHANGED << gateway, settings, role_map, engine_call, server_call, jobs, task, reply >>

\* An attempt builds the envelope and the headers and posts them.
ClientPost(id) ==
  /\ client.pc = "attempt"
  /\ client' = [client EXCEPT !.pc = "sent",
                              !.request = create_mcp_request(id, client.method,
                                                             client.params),
                              !.headers = ClientHeaders(client.server_type)]
  /\ UNCHANGED << gateway, settings, role_map, engine_call, server_call, jobs, task, reply >>

\* The client's POST reaches the gateway's /mcp route.
ClientRequestArrives(r) ==
  /\ client.pc = "sent"
  /\ ReceiveMcpRequest(r, Header(client.headers, "X-Service-Token"),
                       Header(client.headers, "X-User-Roles"), client.request)
  /\ client' = [client EXCEPT !.pc = "waiting"]
  /\ UNCHANGED << engine_call, server_call, jobs, task, reply >>

\* The gateway's response reaches the client.
ClientReceives ==
  /\ client.pc = "waiting"
  /\ finished.pc = "done" /\ finished.plane = "mcp"
  /\ client' = AfterAttempt(client,
                            ResponseRaises(finished.status_code, finished.error))
  /\ UNCHANGED << gateway, settings, role_map, engine_call, server_call, jobs, task, reply >>

\* client.post raises exc: the connection fails or the timeout of the
\* client runs out before a response arrives.
ClientPostFails(exc) ==
  /\ client.pc \in {"sent", "waiting"}
  /\ client' = AfterAttempt(client, exc)
  /\ UNCHANGED << gateway, settings, role_map, engine_call, server_call, jobs, task, reply >>

\* The "type" of the server entry list_mcp_servers has for a resource.
ServerTypes ==
  [x \in {"mcp-finance-server", "mcp-hr-server", "mcp-legal-server"} |->
     CASE x = "mcp-finance-server" -> FINANCE
       [] x = "mcp-hr-server" -> HR
       [] x = "mcp-legal-server" -> LEGAL]

\* GET /mcp/servers: list_mcp_servers, which does not suspend.  The response
\* is kept as the set of the "type" fields of its entries.
ListMcpServers(r, x_service_token, x_user_roles) ==
  /\ Free(r)
  /\ LET s == [IdleSlot EXCEPT !.plane = "mcp_servers",
                               !.x_service_token = x_service_token,
                               !.x_user_roles = x_user_roles]
         accessible_resources == get_accessible_resources(ParseRoles(x_user_roles))
     IN IF validate_service_token(x_service_token) # 0
          THEN Settle(r, Respond(s, 401,
                                 IF ~Truthy(x_service_token) THEN "Missing service token"
                                 ELSE "Invalid service token", << >>))
        ELSE IF Truthy(x_user_roles)
          THEN Settle(r, Respond([s EXCEPT !.servers =
                                    {ServerTypes[x] : x \in accessible_resources
                                                          \cap DOMAIN ServerTypes}],
                                 200, "", << >>))
        ELSE Settle(r, Respond([s EXCEPT !.servers = {FINANCE, HR, LEGAL}],
                               200, "", << >>))
  /\ served' = Min(served + 1, MaxServed)
  /\ UNCHANGED << others, settings, role_map, jwks, breaker, upstream >>

\* validate_jwt_token after get_jwks returned, then the handler's call of
\* forward_to_application.
Verified(r, s, keys) ==
  LET claims == validate_token(extract_token(s.authorization), keys)
      user_info == extract_user_info(claims)
      t == [s EXCEPT !.jwks = keys]
  IN IF ~claims.valid
       THEN Settle(r, Respond(t, 401, "Invalid or expired token", << >>))
     ELSE Settle(r, CallForward([t EXCEPT !.user_info = user_info,
                                          !.department = user_info.department],
                                "forward_to_application", ApplicationUrl))

\* /api/process, /api/status/{job_id}, /api/download/{job_id}: the dependency
\* validate_jwt_token and the handler, up to the first suspension.  The three
\* handlers differ in the method and path they forward, nothing else.
ApiRequest(r, authorization) ==
  /\ Free(r)
  /\ LET s == [IdleSlot EXCEPT !.plane = "api", !.authorization = authorization]
     IN IF ~Truthy(authorization)
          THEN /\ Settle(r, Respond(s, 401, "Missing Authorization header", << >>))
        ELSE IF extract_token(authorization) = None
          THEN /\ Settle(r, Respond(s, 401, "Invalid Authorization header format", << >>))
        ELSE IF ~jwks.fetched
          THEN /\ Settle(r, [s EXCEPT !.pc = "jwks"])
        ELSE Verified(r, s, jwks.keys)
  /\ jwks' = IF /\ extract_token(authorization) # None /\ jwks.fetched
                /\ KeyNotFound(extract_token(authorization), jwks.keys)
               THEN [jwks EXCEPT !.missed = TRUE]
             ELSE jwks
  /\ served' = Min(served + 1, MaxServed)
  /\ UNCHANGED << others, settings, role_map, breaker, upstream >>

\* get_jwks: the key set arrives and is stored in the cache.
JwksFetched(r, keys) ==
  /\ slot[r].pc = "jwks"
  /\ jwks' = [Jwks(keys) EXCEPT !.missed = jwks.missed]
  /\ Verified(r, slot[r], keys)
  /\ UNCHANGED << others, settings, role_map, breaker, upstream, served >>

\* get_jwks: the fetch raises; validate_token returns None.
JwksFailed(r) ==
  /\ slot[r].pc = "jwks"
  /\ Settle(r, Respond(slot[r], 401, "Invalid or expired token", << >>))
  /\ UNCHANGED << others, settings, role_map, jwks, breaker, upstream, served >>

\* --------------------------------------------------- retry and the upstream
\* The history of a destination after one more forward to it has failed.
RunFailed(u) == [fails |-> Min(u.fails + 1, FAILURE_THRESHOLD), age |-> 0]

\* What the httpx call of an attempt can raise: transport errors (subclasses
\* of httpx.TransportError) and DecodingError, raised when the body of the
\* upstream's response cannot be decoded, which is not a transport error.
TransportErrors == {"ConnectError", "ReadTimeout"}
Exceptions == TransportErrors \cup {"DecodingError"}

\* Mutant: the retry loop stops one attempt later.
stop_after_one_more(attempt_number) == attempt_number > MAX_ATTEMPTS

\* stop=stop_after_attempt(3): no attempt follows the third.
stop_after_attempt(attempt_number) == attempt_number >= MAX_ATTEMPTS

\* An attempt raises exc.  @retry has no retry= argument, so every exception
\* is retried, and no reraise=True, so after the last attempt tenacity raises
\* RetryError: the breaker counts one failure for the call and the handler's
\* `except Exception` answers 500.
AttemptFails(r, exc) ==
  /\ slot[r].pc = "inflight"
  /\ IF ~stop_after_attempt(slot[r].attempt)
       THEN /\ Settle(r, [slot[r] EXCEPT !.pc = "backoff", !.exc = exc])
            /\ UNCHANGED << breaker, upstream >>
     ELSE LET fn == BreakerOf(FunctionOf(slot[r]), slot[r].server_url) IN
          /\ breaker' = [breaker EXCEPT ![fn] =
                           [CallFailed(breaker[fn]) EXCEPT !.reopened =
                              slot[r].probe /\ State(breaker[fn]) = "half_open"]]
          /\ upstream' = [upstream EXCEPT ![slot[r].server_url] =
                            RunFailed(upstream[slot[r].server_url])]
          /\ Settle(r, Respond([slot[r] EXCEPT !.exc = exc],
                                500, "Internal server error",
                                << AuditLog(500, "RetryError") >>))
  /\ UNCHANGED << others, settings, role_map, jwks, served >>

\* The backoff sleep of @retry ends and the next attempt goes out.
RetryWake(r) ==
  /\ slot[r].pc = "backoff"
  /\ Settle(r, [slot[r] EXCEPT !.pc = "inflight", !.exc = "",
                                !.attempt = slot[r].attempt + 1])
  /\ UNCHANGED << others, settings, role_map, jwks, breaker, upstream, served >>

\* The error member of the body an MCP server answers a forwarded request
\* with: its 200 responses are those of handle_request, whose error member
\* is the same whether or not the method it invokes raises.
UpstreamError(s, upstream_status) ==
  IF s.plane = "mcp" /\ upstream_status = 200
    THEN handle_request(MCPRequest(s.id, s.method, s.params), FALSE).response.error
  ELSE 0

\* The upstream answers with an HTTP response of any status: the breaker
\* records a success, the handler logs the audit entry and builds the
\* JSONResponse from the upstream's body; response.json() raises on a body
\* that is not JSON, which the handler's `except Exception` logs and answers
\* 500.
AttemptSucceeds(r, upstream_status, is_json) ==
  /\ slot[r].pc = "inflight"
  /\ LET fn == BreakerOf(FunctionOf(slot[r]), slot[r].server_url)
         s == [slot[r] EXCEPT !.upstream_status = upstream_status, !.exc = "",
                              !.error = IF is_json
                                          THEN UpstreamError(slot[r], upstream_status)
                                        ELSE 0]
     IN
     /\ breaker' = [breaker EXCEPT ![fn] = CallSucceeded(breaker[fn])]
     /\ upstream' = [upstream EXCEPT ![slot[r].server_url] = NoRun]
     /\ Settle(r, IF is_json
                     THEN Respond(s, upstream_status, "", << AuditLog(upstream_status, "") >>)
                   ELSE Respond(s, 500, "Internal server error",
                                << AuditLog(upstream_status, ""),
                                   AuditLog(500, "JSONDecodeError") >>))
  /\ UNCHANGED << others, settings, role_map, jwks, served >>

Aged(age) == Min(age + TickStep, RECOVERY_TIMEOUT)

\* The monotonic clock advances.
Tick ==
  /\ breaker' = [f \in Functions |->
                   IF breaker[f].state = "open"
                     THEN [breaker[f] EXCEPT !.age = Aged(breaker[f].age)]
                   ELSE breaker[f]]
  /\ upstream' = [d \in Destinations |->
                    IF upstream[d].fails >= FAILURE_THRESHOLD
                      THEN [upstream[d] EXCEPT !.age = Aged(upstream[d].age)]
                    ELSE upstream[d]]
  /\ << breaker', upstream' >> # << breaker, upstream >>
  /\ UNCHANGED << others, settings, role_map, jwks, slot, served >>
  /\ finished' = IdleSlot

\* ------------------------------------------------------------------ inputs
RolesHeaders ==
  { None, << >>, FINANCE, HR, << "F", "i", "n", "a", "n", "c", "e" >>,
    FINANCE \o << ",", " " >> \o HR, ADMIN, << " " >> }

ServiceTokens == { None, SECRET, << "w", "r", "o", "n", "g" >> }

MARKETING == << "m", "k", "t" >>

ParamsSet ==
  { NoParams, Params(None, None, FALSE), Params(None, None, TRUE),
    Params(FINANCE, None, TRUE), Params(<< "H", "R" >>, None, FALSE),
    Params(None, HR, TRUE), Params(<< >>, LEGAL, FALSE),
    Params(MARKETING, FINANCE, FALSE) }

UpstreamStatuses == {200, 404, 500}

Bearer(t) == << "B", "e", "a", "r", "e", "r", " ", t >>

Authorizations ==
  { None, << >>, << "B", "e", "a", "r", "e", "r" >>,
    << "B", "a", "s", "i", "c", " ", "tok:access" >>,
    << "b", "e", "a", "r", "e", "r", " ", " ", "tok:access" >>,
    Bearer("tok:access") \o << " ", "x" >>, Bearer("x") }
  \cup { Bearer(t) : t \in DOMAIN Tokens }

Methods == SupportedMethods \cup {"invalid/method", "tools/delete"}

ServerParamsSet ==
  { NoParams, Params(None, None, FALSE), Params(HR, None, TRUE) }
  \cup { [Params(None, d, FALSE) EXCEPT !.name = n, !.uri = u] :
           d \in {None, HR},
           n \in {None, << "get_org_chart" >>, << "drop_table" >>},
           u \in {None, << "hr://policies" >>, << "hr://salaries" >>} }

\* What list_tools, call_tool, list_resources and read_resource pass on.
ClientCalls ==
  { << "tools/list", NoParams >>, << "resources/list", NoParams >> }
  \cup { << "tools/call", ToolCall(n) >> :
           n \in {<< "get_org_chart" >>, << "drop_table" >>} }
  \cup { << "resources/read", ResourceRead(u) >> :
           u \in {<< "hr://policies" >>, << "hr://salaries" >>} }

RoleNames == {FINANCE, HR, ADMIN, MARKETING}

RECURSIVE RoleListsOf(_)
RoleListsOf(n) ==
  IF n = 0 THEN { << >> }
  ELSE RoleListsOf(n - 1)
       \cup {Append(l, x) : l \in {m \in RoleListsOf(n - 1) : Len(m) = n - 1},
                            x \in RoleNames}

RoleLists == RoleListsOf(MaxRoles)

Resources == {"mcp-finance-server", "mcp-hr-server", "mcp-legal-server", "mcp-audit-server"}

Actions == {"read", "write", "delete"}

\* ---------------------------------------------------------- specifications
Outcome(r) ==
  \/ \E e \in Exceptions : AttemptFails(r, e)
  \/ RetryWake(r)
  \/ \E c \in UpstreamStatuses, j \in BOOLEAN : AttemptSucceeds(r, c, j)

\* The control plane, one request at a time, over every header and body,
\* for the first MaxAuthRequests requests after start-up.
NextMcp ==
  \/ /\ served < MaxAuthRequests
     /\ \E t \in ServiceTokens, h \in RolesHeaders, p \in ParamsSet :
          RouteMcpRequest(1, t, h, MCPRequest("1", "tools/list", p))
  \/ Outcome(1)

SpecMcp == Init /\ [][NextMcp]_vars

\* The data plane, concurrent requests, over every Authorization header,
\* for the first MaxApiRequests requests after start-up.
NextApi ==
  \/ /\ served < MaxApiRequests
     /\ \E r \in 1..NSlots, a \in Authorizations : ApiRequest(r, a)
  \/ \E r \in 1..NSlots, k \in KeySets : JwksFetched(r, k)
  \/ \E r \in 1..NSlots : JwksFailed(r)
  \/ \E r \in 1..NSlots : AttemptFails(r, "ReadTimeout")
  \/ \E r \in 1..NSlots : RetryWake(r)
  \/ \E r \in 1..NSlots, c \in UpstreamStatuses, j \in BOOLEAN :
       AttemptSucceeds(r, c, j)

InitDefault ==
  /\ Init
  /\ settings = DefaultSettings
  /\ role_map = RoleMapOf(DepartmentPolicy)

SpecApi == InitDefault /\ [][NextApi]_vars

\* The control plane with authorized requests only, any number of them, the
\* upstreams failing and recovering and the clock advancing.
Next ==
  \/ \E r \in 1..NSlots, d \in {FINANCE, HR} :
       RouteMcpRequest(r, SECRET, None,
                       MCPRequest("1", "tools/list", Params(None, d, FALSE)))
  \/ \E r \in 1..NSlots : AttemptFails(r, "ConnectError")
  \/ \E r \in 1..NSlots : RetryWake(r)
  \/ \E r \in 1..NSlots : AttemptSucceeds(r, 200, TRUE)
  \/ Tick

Spec == InitDefault /\ [][Next]_vars

\* The data plane with one valid token, any number of concurrent requests,
\* the identity provider publishing either key set, the processing upstream
\* failing or answering 200 or 500 and the clock advancing.
NextApp ==
  \/ \E r \in 1..NSlots : ApiRequest(r, Bearer("tok:access"))
  \/ \E r \in 1..NSlots, k \in KeySets : JwksFetched(r, k)
  \/ \E r \in 1..NSlots : AttemptFails(r, "ReadTimeout")
  \/ \E r \in 1..NSlots : RetryWake(r)
  \/ \E r \in 1..NSlots, c \in {200, 500} : AttemptSucceeds(r, c, TRUE)
  \/ Tick

SpecApp == InitDefault /\ [][NextApp]_vars

\* The RBAC engine under every policy, called with every list of roles,
\* resource and action.
NextRbac ==
  \/ \E l \in RoleLists, x \in Resources, a \in Actions : CheckPermission(l, x, a)
  \/ \E l \in RoleLists : GetAccessibleResources(l)

InitRbac == Init /\ settings = DefaultSettings

SpecRbac == InitRbac /\ [][NextRbac]_vars

\* GET /mcp/servers under every configuration and policy, with every pair of
\* headers; the handler does not suspend, so requests do not overlap.
NextServers ==
  \E t \in ServiceTokens, h \in RolesHeaders : ListMcpServers(1, t, h)

SpecServers == Init /\ [][NextServers]_vars

\* The control plane in front of the MCP servers, one request at a time,
\* over every method, for the first MaxAuthRequests requests after start-up.
NextMethods ==
  \/ /\ served < MaxAuthRequests
     /\ \E t \in {SECRET, None}, h \in {None, HR}, m \in Methods, p \in ServerParamsSet :
          RouteMcpRequest(1, t, h, MCPRequest("1", m, p))
  \/ AttemptFails(1, "ConnectError")
  \/ RetryWake(1)
  \/ AttemptSucceeds(1, 200, TRUE)

SpecMethods == InitDefault /\ [][NextMethods]_vars

\* The application's MCPClient in front of the gateway, one call at a time.
NextClient ==
  \/ \E d \in {FINANCE, HR, LEGAL, MARKETING}, c \in ClientCalls :
       CallMcpServer(d, c[1], c[2])
  \/ \E id \in {"1", "2"} : ClientPost(id)
  \/ served < MaxAuthRequests /\ ClientRequestArrives(1)
  \/ ClientReceives
  \/ \E exc \in TransportErrors : ClientPostFails(exc)

\* The gateway is configured with the token the application is configured
\* with.
InitClient ==
  /\ Init
  /\ role_map = RoleMapOf(DepartmentPolicy)
  /\ settings = [DefaultSettings EXCEPT !.service_token = ClientServiceToken]

SpecClient == InitClient /\ [][NextClient]_vars

\* The application service: processing jobs and the queries about them.
NextJobs ==
  \/ \E d \in {FINANCE, HR, MARKETING} : ProcessFile(d)
  \/ \E n \in ProcessingIds :
       \/ BeginProcessing(n)
       \/ DownloadReturns(n)
       \/ CallToolReturns(n)
       \/ UploadReturns(n)
       \/ \E step \in DOMAIN StepErrors : StepRaises(n, step)
       \/ GetStatus(n)
       \/ \E expired \in BOOLEAN, raises \in BOOLEAN : GetDownloadUrl(n, expired, raises)

SpecJobs == InitDefault /\ [][NextJobs]_vars

\* An MCP server, over every request.
NextHandle ==
  \E id \in {"1", "2"}, m \in Methods, p \in ServerParamsSet, raises \in BOOLEAN :
    HandleRequest(id, m, p, raises)

SpecHandle == InitDefault /\ [][NextHandle]_vars

\* The data plane while the identity provider rotates its keys: tokens signed
\* with the old and with the new key, any number of requests, the upstream
\* answering.
NextKeys ==
  \/ \E r \in 1..NSlots, t \in {"tok:access", "tok:rotated"} :
       ApiRequest(r, Bearer(t))
  \/ \E r \in 1..NSlots, k \in KeySets : JwksFetched(r, k)
  \/ \E r \in 1..NSlots : JwksFailed(r)
  \/ \E r \in 1..NSlots : AttemptSucceeds(r, 200, TRUE)

SpecKeys == InitDefault /\ [][NextKeys]_vars

\* ------------------------------------------------------------------ claims
\* The requests the state shows: those being handled and the one that has
\* just been answered.
Requests ==
  {slot[r] : r \in {x \in 1..NSlots : slot[x].pc # "idle"}}
    \cup (IF finished.pc = "done" THEN {finished} ELSE {})

Answered(q) == q.pc = "done"

\* A network attempt to the upstream has been made for the request.
Forwarded(q) == q.attempt >= 1

\* The department the request declares: params.department, else
\* params.server_type.
Declared(q) ==
  IF q.params.isNone THEN None
  ELSE IF Truthy(q.params.department) THEN q.params.department
  ELSE q.params.server_type

DeclaredRoles(q) == ParseRoles(q.x_user_roles)

\* Some declared role is a role of the policy holding `read` on the resource.
HoldsRead(q, resource) ==
  \E i \in 1..Len(DeclaredRoles(q)) :
    /\ DeclaredRoles(q)[i] \in DOMAIN role_map
    /\ \E k \in 1..Len(role_map[DeclaredRoles(q)[i]]) :
         /\ role_map[DeclaredRoles(q)[i]][k].resource = resource
         /\ "read" \in role_map[DeclaredRoles(q)[i]][k].actions

ResourceOf(department) ==
  CASE Lower(department) = FINANCE -> "mcp-finance-server"
    [] Lower(department) = HR -> "mcp-hr-server"
    [] Lower(department) = LEGAL -> "mcp-legal-server"
    [] OTHER -> "None"

\* The declared department is one of the declared roles, letter case aside.
AmongRoles(q) ==
  \E i \in 1..Len(DeclaredRoles(q)) :
    Lower(DeclaredRoles(q)[i]) = Lower(Declared(q))

\* The request carries the service token the gateway accepts and declares a
\* department: it reaches the authorization checks.
ReachesAuthorization(q) ==
  /\ q.plane = "mcp"
  /\ Truthy(q.x_service_token)
  /\ Truthy(settings.service_token) => q.x_service_token = settings.service_token
  /\ Truthy(Declared(q))

\* C1: with RBAC and department isolation enabled, a control-plane request is
\* forwarded to an upstream only if a declared role holds `read` on the
\* resource of the declared department and the department is among the
\* declared roles; a request without X-User-Roles (or an empty one) is never
\* forwarded.
C1_ForwardedOnlyIfAuthorized ==
  \A q \in Requests :
    (/\ q.plane = "mcp" /\ Forwarded(q)
     /\ settings.rbac_enabled /\ settings.department_isolation)
    => /\ Truthy(q.x_user_roles)
       /\ HoldsRead(q, ResourceOf(Declared(q)))
       /\ AmongRoles(q)

C3_DistinctAuditReasons ==
  \A q \in Requests :
    (/\ ReachesAuthorization(q) /\ Answered(q) /\ Truthy(q.x_user_roles)
     /\ settings.rbac_enabled /\ settings.department_isolation
     /\ ResourceOf(Declared(q)) # "None")
    => /\ ~AmongRoles(q) =>
            /\ q.status_code = 403
            /\ q.audit = << AuditLog(403, "Department isolation violation") >>
       /\ (AmongRoles(q) /\ ~HoldsRead(q, ResourceOf(Declared(q)))) =>
            /\ q.status_code = 403
            /\ q.audit = << AuditLog(403, "RBAC permission denied") >>

\* C4: a control-plane request whose X-Service-Token is absent or differs
\* from the gateway's service credential is answered 401 and never forwarded,
\* whatever the configured credential, none included.
C4_ServiceTokenEquality ==
  \A q \in Requests :
    (/\ q.plane = "mcp"
     /\ ~Truthy(q.x_service_token) \/ q.x_service_token # settings.service_token)
    => /\ ~Forwarded(q)
       /\ Answered(q)
       /\ q.status_code = 401

\* The Authorization header is `Bearer <token>`: two words, the first being
\* "bearer" in any letter case.
BearerForm(q) ==
  /\ Truthy(q.authorization)
  /\ Len(SplitWs(q.authorization)) = 2
  /\ Lower(SplitWs(q.authorization)[1]) = Lower(<< "B", "E", "A", "R", "E", "R" >>)

Presented(q) == TokenOf(SplitWs(q.authorization)[2])

\* The token verifies against the key set get_jwks gave the request: its
\* header names a key of the set, that key signed it, it has not expired and
\* it is an access token.
BearerVerified(q) ==
  /\ BearerForm(q)
  /\ Presented(q).well_formed
  /\ Presented(q).kid # ""
  /\ \E i \in 1..Len(q.jwks) :
       /\ q.jwks[i].kid = Presented(q).kid
       /\ q.jwks[i].key = Presented(q).signed_by
  /\ ~Presented(q).expired
  /\ Presented(q).token_use = "access"

\* C5: a data-plane request reaches the processing upstream only after its
\* bearer token was verified; a request whose header is missing or malformed,
\* or whose token has no key id, an unknown key id, a bad signature, is
\* expired or is not an access token, is answered 401 without any call of
\* forward_to_application.
C5_ForwardOnlyVerified ==
  \A q \in Requests :
    q.plane = "api" =>
      /\ (Forwarded(q) \/ q.server_url # NoUrl \/ q.pc \in {"inflight", "backoff"})
           => BearerVerified(q)
      /\ (q.pc # "jwks" /\ ~BearerVerified(q))
           => /\ Answered(q) /\ q.status_code = 401
              /\ ~Forwarded(q) /\ q.server_url = NoUrl

\* A token of every rejected kind has been answered 401 at the gate, here
\* one whose key id is not in the cached key set.
C5_Witness ==
  /\ finished.plane = "api" /\ Answered(finished)
  /\ BearerForm(finished)
  /\ Presented(finished).kid = "k2"
  /\ finished.jwks = << Jwk("k1", "key1") >>
  /\ finished.status_code = 401

\* C6: the Principal of a verified token has the roles of the token's group
\* claim, in order, and the first group as department, "unknown" when the
\* claim is absent or empty.
C6_PrincipalFromGroups ==
  \A q \in Requests :
    (q.plane = "api" /\ q.pc # "jwks" /\ BearerVerified(q)) =>
      LET groups == Presented(q).groups IN
      /\ groups # NoGroups /\ groups # << >> =>
           /\ q.user_info.roles = groups
           /\ q.user_info.department = groups[1]
      /\ groups = NoGroups \/ groups = << >> =>
           /\ q.user_info.roles = << >>
           /\ q.user_info.department = << "u", "n", "k", "n", "o", "w", "n" >>

\* A verified token listing two groups is being forwarded.
C6_Witness ==
  \E r \in 1..NSlots :
    /\ slot[r].plane = "api" /\ slot[r].pc = "inflight"
    /\ BearerVerified(slot[r])
    /\ Presented(slot[r]).groups = << FINANCE, ADMIN >>
    /\ slot[r].user_info.roles = << FINANCE, ADMIN >>
    /\ slot[r].user_info.department = FINANCE

\* The destination's own last FAILURE_THRESHOLD forwards all failed, the last
\* of them less than RECOVERY_TIMEOUT ago.
OwnRunOpen(server_url) ==
  /\ upstream[server_url].fails >= FAILURE_THRESHOLD
  /\ upstream[server_url].age < RECOVERY_TIMEOUT

\* The forward was refused by the breaker: no attempt was made.
Rejected(q) == Answered(q) /\ q.server_url # NoUrl /\ ~Forwarded(q)

\* Slot r makes a network attempt in this step.
Attempts(r) == slot'[r].pc = "inflight" /\ slot[r].pc # "inflight"

\* Slot r enters a forwarding function in this step and makes its first attempt.
Admitted(r) == slot'[r].pc = "inflight" /\ slot[r].pc \in {"idle", "jwks"}

\* C7: one independent circuit per destination: a call is rejected as
\* circuit-open only on account of failed forwards to its own destination,
\* never because of failures of calls to another department's upstream.
C7_IndependentCircuits ==
  Rejected(finished) => OwnRunOpen(finished.server_url)

\* C8: after 5 consecutive failed forwards to a destination, the next call to
\* it within the recovery window is not admitted: it makes no network attempt.
C8_SixthCallFailsFast ==
  [][\A r \in 1..NSlots : Admitted(r) => ~OwnRunOpen(slot'[r].server_url)]_vars

\* C9: after the recovery window exactly one probe is let through: at most
\* one request admitted in the half-open state is in progress at a time.
C9_SingleProbe ==
  Cardinality({r \in 1..NSlots : slot[r].probe}) <= 1

\* C10: no network attempt is made to a destination while its circuit is
\* open, the retries of calls admitted before it opened included.
C10_NoAttemptWhileOpen ==
  [][\A r \in 1..NSlots :
       Attempts(r) =>
         ~Opened(breaker[BreakerOf(FunctionOf(slot'[r]), slot'[r].server_url)])]_vars

\* The breaker guarding the forward of request q.
GuardOf(q) == BreakerOf(FunctionOf(q), q.server_url)

\* The forward of slot r returns or raises in this step: the upstream
\* answered, or the last attempt failed.
Completes(r) ==
  /\ slot[r].pc = "inflight" /\ slot'[r].pc = "idle"
  /\ finished'.pc = "done"

\* C11: in the half-open state a successful probe closes the circuit and
\* resets the failure counter to zero, a failed probe re-opens it and restarts
\* the window, and through the whole window that follows the failed probe the
\* circuit stays open, so that every call is rejected without network I/O.
C11_ProbeOutcome ==
  [][/\ \A r \in 1..NSlots :
          (/\ Completes(r) /\ slot[r].probe
           /\ State(breaker[GuardOf(slot[r])]) = "half_open")
          => IF finished'.upstream_status # 0
               THEN /\ breaker'[GuardOf(slot[r])].state = "closed"
                    /\ breaker'[GuardOf(slot[r])].failure_count = 0
             ELSE /\ breaker'[GuardOf(slot[r])].state = "open"
                  /\ breaker'[GuardOf(slot[r])].age = 0
     /\ \A f \in Functions :
          (Opened(breaker[f]) /\ breaker[f].reopened)
          => /\ breaker'[f].state = "open"
             /\ \A r \in 1..NSlots :
                  (Admitted(r) \/ Attempts(r)) => GuardOf(slot'[r]) # f]_vars

\* The forward of slot r ends in this step with an HTTP response of the
\* upstream, whatever its status.
Succeeds(r) == Completes(r) /\ finished'.upstream_status # 0

\* The forward of slot r ends in this step with its last attempt failing.
Fails(r) == Completes(r) /\ finished'.upstream_status = 0

\* C12: any successful call, a 4xx or 5xx response of the upstream included,
\* resets the circuit's failure counter to zero; the counter grows by one
\* with each failed call and in no other step, and a closed circuit opens
\* only in the step in which the fifth failure since the last success is
\* counted.
C12_SuccessResetsCounter ==
  [][/\ \A r \in 1..NSlots :
          Succeeds(r) => /\ breaker'[GuardOf(slot[r])].failure_count = 0
                         /\ breaker'[GuardOf(slot[r])].state = "closed"
     /\ \A f \in Functions :
          /\ breaker'[f].failure_count # breaker[f].failure_count
               => \/ breaker'[f].failure_count = 0
                  \/ /\ breaker'[f].failure_count = breaker[f].failure_count + 1
                     /\ \E r \in 1..NSlots : Fails(r) /\ GuardOf(slot[r]) = f
          /\ (breaker[f].state = "closed" /\ breaker'[f].state = "open")
               => /\ breaker[f].failure_count = 4
                  /\ breaker'[f].failure_count = 5
                  /\ \E r \in 1..NSlots : Fails(r) /\ GuardOf(slot[r]) = f]_vars

\* A 500 response of the upstream has just been returned and the circuit is
\* closed with its counter at zero, while a call admitted when the circuit
\* was half-open, five failures counted, is still in flight.
C12_Witness ==
  /\ Answered(finished) /\ finished.upstream_status = 500
  /\ finished.status_code = 500
  /\ breaker[GuardOf(finished)].failure_count = 0
  /\ breaker[GuardOf(finished)].state = "closed"
  /\ \E r \in 1..NSlots :
       /\ slot[r].probe /\ slot[r].pc = "inflight"
       /\ GuardOf(slot[r]) = GuardOf(finished)

\* C13: a logical forward makes at most 3 attempts, and a response of the
\* upstream, an error status like 404 or 500 included, is never retried: the
\* attempt that received it is the last, the request is answered at once and
\* the caller gets the upstream's status (500 when the body cannot be parsed).
C13_BoundedRetries ==
  \A q \in Requests :
    /\ q.attempt <= 3
    /\ q.pc \in {"inflight", "backoff"} => q.attempt >= 1
    /\ q.upstream_status # 0 =>
         /\ Answered(q)
         /\ q.status_code \in {q.upstream_status, 500}
         /\ q.audit[1] = AuditLog(q.upstream_status, "")

\* A 404 of the upstream has been returned after a single attempt.
C13_Witness ==
  /\ Answered(finished) /\ finished.plane = "mcp"
  /\ finished.upstream_status = 404 /\ finished.status_code = 404
  /\ finished.attempt = 1

\* C14: an attempt is retried only when it failed with a transport-level
\* failure (connection or timeout error): a request waiting to make another
\* attempt has a transport error as the failure of its last attempt.
C14_RetryOnlyTransport ==
  \A q \in Requests :
    q.pc = "backoff" => q.exc \in {"ConnectError", "ReadTimeout"}

\* The forward of q ended as UpstreamUnavailable: the breaker refused the
\* call, or the last of its attempts failed with a transport error.
UpstreamUnavailable(q) ==
  /\ Answered(q) /\ q.server_url # NoUrl /\ q.upstream_status = 0
  /\ Rejected(q) \/ (Forwarded(q) /\ q.exc \in {"ConnectError", "ReadTimeout"})

\* C15: a request whose forward ended as UpstreamUnavailable, retries
\* exhausted on transport errors or circuit open, is answered 502 and its
\* audit entry records status 502.
C15_UnavailableIs502 ==
  \A q \in Requests :
    UpstreamUnavailable(q) =>
      /\ q.status_code = 502
      /\ q.audit # << >>
      /\ \A i \in 1..Len(q.audit) : q.audit[i].status_code = 502

\* C16: every handled request produces an audit entry on every exit path,
\* the rejections with 401, 400 and 404 included.
C16_AuditOnEveryExit ==
  \A q \in Requests : Answered(q) => Len(q.audit) >= 1

\* C17: no handled request produces more than one audit entry, the path
\* where the upstream answered and building the caller's response then fails
\* included.
C17_AtMostOneAudit ==
  \A q \in Requests : Len(q.audit) <= 1

\* C18: the status code recorded in the audit trail of a handled request
\* equals the status code of the response the caller receives.
C18_AuditStatusIsResponseStatus ==
  \A q \in Requests :
    Answered(q) =>
      \A i \in 1..Len(q.audit) : q.audit[i].status_code = q.status_code

\* The service token of q is one the gateway accepts.
TokenAccepted(q) ==
  /\ q.plane = "mcp" /\ Truthy(q.x_service_token)
  /\ Truthy(settings.service_token) => q.x_service_token = settings.service_token

\* No upstream is configured for the department.
NoUpstream(department) ==
  CASE Lower(department) = FINANCE -> settings.mcp_finance_url = NoUrl
    [] Lower(department) = HR -> settings.mcp_hr_url = NoUrl
    [] Lower(department) = LEGAL -> settings.mcp_legal_url = NoUrl
    [] OTHER -> TRUE

\* C19: a control-plane request with an accepted token that declares no
\* department is answered 400, and one that declares a department for which
\* no upstream is configured is answered 404 unless authorization denied it
\* with 403, with and without an X-User-Roles header.
C19_MissingVersusUnmappable ==
  \A q \in Requests :
    TokenAccepted(q) =>
      /\ ~Truthy(Declared(q)) => Answered(q) /\ q.status_code = 400
      /\ (Truthy(Declared(q)) /\ NoUpstream(Declared(q))) =>
           Answered(q) /\ q.status_code \in {404, 403}

\* The key-set fetch of slot r returns its response in this step.
FetchCompletes(r) ==
  /\ slot[r].pc = "jwks"
  /\ \/ slot'[r].jwks # << >>
     \/ slot'[r].pc = "idle" /\ finished'.jwks # << >>

\* C20: the key set is fetched at most once per process: once a fetch has
\* succeeded and filled the cache, no other fetch completes and the cache is
\* not overwritten.
C20_SingleFetch ==
  [][jwks.fetched =>
       /\ jwks' = jwks
       /\ \A r \in 1..NSlots : ~FetchCompletes(r)]_vars

\* Slot r takes a request in this step whose token names a kid that the
\* filled cache does not hold.
MissesCache(r) ==
  /\ slot[r].pc = "idle" /\ jwks.fetched
  /\ \E q \in {slot'[r], finished'} :
       /\ q.plane = "api" /\ q.pc # "idle" /\ BearerForm(q)
       /\ Presented(q).well_formed /\ Presented(q).kid # ""
       /\ \A i \in 1..Len(jwks.keys) : jwks.keys[i].kid # Presented(q).kid

\* C21: on the first miss of a token's kid in the filled cache the key set is
\* fetched again, once; on every later miss no fetch is made and the request
\* fails.
C21_RefreshOnFirstMiss ==
  [][\A r \in 1..NSlots :
       MissesCache(r) =>
         IF ~jwks.missed
           THEN slot'[r].pc = "jwks"
         ELSE /\ slot'[r].pc = "idle"
              /\ finished'.status_code = 401]_vars

\* Role `name` is defined in the policy and one of its permissions names the
\* resource and lists the action.
RoleGrants(name, resource, action) ==
  /\ name \in DOMAIN role_map
  /\ \E k \in 1..Len(role_map[name]) :
       /\ role_map[name][k].resource = resource
       /\ action \in role_map[name][k].actions

\* C22: check_permission has union-over-roles semantics: it returns true
\* exactly when some role of the list is defined in the policy and has a
\* permission with that resource and action; undefined roles contribute
\* nothing and under the empty policy every check is false.
C22_UnionOverRoles ==
  engine_call.fn = "check_permission" =>
    /\ engine_call.result <=>
         \E i \in 1..Len(engine_call.roles) :
           RoleGrants(engine_call.roles[i], engine_call.resource, engine_call.action)
    /\ DOMAIN role_map = {} => ~engine_call.result

\* The second role of the list grants what the first, undefined in the
\* policy, does not.
C22_Witness ==
  /\ engine_call.fn = "check_permission" /\ engine_call.result
  /\ Len(engine_call.roles) = 2
  /\ engine_call.roles[1] \notin DOMAIN role_map
  /\ RoleGrants(engine_call.roles[2], engine_call.resource, engine_call.action)

\* The list with role x put at position i (1 is the front).
WithRole(roles, x, i) ==
  SubSeq(roles, 1, i - 1) \o << x >> \o SubSeq(roles, i, Len(roles))

\* C23: check_permission is monotonic in the roles: a grant remains a grant
\* when any role is added to the list, wherever it is put, and the accessible
\* resources of a list are among those of the list with a role added.
C23_MonotonicInRoles ==
  \A x \in RoleNames : \A i \in 1..(Len(engine_call.roles) + 1) :
    /\ (engine_call.fn = "check_permission" /\ engine_call.result) =>
         check_permission(WithRole(engine_call.roles, x, i),
                          engine_call.resource, engine_call.action)
    /\ engine_call.fn = "get_accessible_resources" =>
         engine_call.resources \subseteq
           get_accessible_resources(WithRole(engine_call.roles, x, i))

\* A grant to a list of roles to which a role the policy does not define can
\* be added, and a list with accessible resources.
C23_Witness ==
  /\ DOMAIN role_map # {}
  /\ \/ /\ engine_call.fn = "check_permission" /\ engine_call.result
        /\ engine_call.roles # << >>
        /\ \E x \in RoleNames : x \notin DOMAIN role_map
     \/ /\ engine_call.fn = "get_accessible_resources"
        /\ Cardinality(engine_call.resources) >= 2

\* Some role declared in X-User-Roles is defined in the policy with a
\* permission on the resource.
Reaches(q, resource) ==
  \E i \in 1..Len(DeclaredRoles(q)) :
    /\ DeclaredRoles(q)[i] \in DOMAIN role_map
    /\ \E k \in 1..Len(role_map[DeclaredRoles(q)[i]]) :
         role_map[DeclaredRoles(q)[i]][k].resource = resource

\* C24: GET /mcp/servers lists only servers whose resource is reachable by
\* the roles declared in X-User-Roles; a request declaring no roles is shown
\* no server.
C24_ListsOnlyReachable ==
  \A q \in Requests :
    (q.plane = "mcp_servers" /\ Answered(q)) =>
      /\ FINANCE \in q.servers => Reaches(q, "mcp-finance-server")
      /\ HR \in q.servers => Reaches(q, "mcp-hr-server")
      /\ LEGAL \in q.servers => Reaches(q, "mcp-legal-server")

\* ------------------------------------------------------------------- C25
\* C25: a control-plane request with the accepted service token that names
\* a method outside tools/list, tools/call, resources/list and resources/read
\* is answered with HTTP 200 and a JSON-RPC error of code -32601, whatever
\* its params are, empty params included.
C25_UnsupportedMethodIsMethodNotFound ==
  \A q \in Requests :
    ( /\ q.plane = "mcp" /\ Answered(q)
      /\ validate_service_token(q.x_service_token) = 0
      /\ q.method \notin SupportedMethods )
    => q.status_code = 200 /\ q.error = METHOD_NOT_FOUND

\* ------------------------------------------------------------------- C26
\* C26: when an attempt of call_mcp_server fails with an httpx transport
\* error or timeout, the call is attempted again, so MCPClientError reaches
\* the caller for such a failure only after the third attempt.
C26_RetriesTransportErrors ==
  (client.pc = "raised" /\ client.cause \in TransportErrors)
    => client.attempt = CLIENT_MAX_ATTEMPTS

\* ------------------------------------------------------------------- C27
\* The gateway has answered the tools/call the client sent for a valid
\* server type.
ClientToolCallAnswered ==
  /\ client.pc = "waiting" /\ client.method = "tools/call"
  /\ client.server_type \in {FINANCE, HR, LEGAL}
  /\ ClientServiceToken = settings.service_token
  /\ finished.pc = "done" /\ finished.plane = "mcp"

\* C27: a tools/call the application's MCPClient issues with the correct
\* service token for a valid server type is rejected by the gateway neither
\* with 401 for a missing service token nor with 400 for a missing
\* department.
C27_ClientPassesControlPlane ==
  ClientToolCallAnswered =>
    /\ ~(finished.status_code = 401 /\ finished.detail = "Missing service token")
    /\ ~(finished.status_code = 400 /\ finished.detail = "Missing department in request")

\* ------------------------------------------------------------------- C28
Registered(n) == jobs[n] # NoJob

\* The moves of a job's status.
StatusMoves ==
  { << "pending", "processing" >>, << "processing", "completed" >>,
    << "processing", "failed" >> }

\* The fields a job of this status must have set.
WellFormed(job) ==
  /\ job.status \in {"pending", "processing", "completed", "failed"}
  /\ job.status = "completed"
       => /\ job.output_s3_key # None /\ job.download_url # None
          /\ job.completed_at # None
  /\ job.status = "failed"
       => job.error_message # None /\ job.completed_at # None

\* What a step may do to the jobs: a job is registered as pending and never
\* removed, and its status stays or makes one of the moves.
JobsStep ==
  \A n \in ProcessingIds :
    /\ ~Registered(n) /\ Registered(n)' => jobs'[n].status = "pending"
    /\ Registered(n)
         => /\ Registered(n)'
            /\ \/ jobs'[n].status = jobs[n].status
               \/ << jobs[n].status, jobs'[n].status >> \in StatusMoves

\* C28: every job's status is one of pending, processing, completed and
\* failed and only moves pending -> processing -> completed or failed, so
\* completed and failed never change; a completed job has output_s3_key,
\* download_url and completed_at set and a failed job has error_message and
\* completed_at set.
C28_JobLifecycle ==
  /\ [](\A n \in ProcessingIds : Registered(n) => WellFormed(jobs[n]))
  /\ [][JobsStep]_vars

\* One job has completed, its URL has been renewed by a download request,
\* and another job has failed.
C28_Witness ==
  \E n, m \in ProcessingIds :
    /\ jobs[n].status = "completed" /\ jobs[m].status = "failed"
    /\ reply.handler = "download" /\ reply.processing_id = n
    /\ reply.status_code = 200 /\ reply.download_url # << "https://", n >>

\* ------------------------------------------------------------------- C29
\* The coroutine of job n was ended by an exception of one of its steps.
ProcessingFailed(n) == task[n].pc = "returned" /\ task[n].failure # ""

\* C29: start_processing does not raise when the download, the MCP call,
\* the enrichment or the upload fails: process_file answers 202, the job
\* stays registered with status failed, a status query for its id answers
\* 200 with status failed, and a download request for it is refused with 400
\* and carries no URL.
C29_FailureIsRecorded ==
  \A n \in ProcessingIds :
    ProcessingFailed(n) =>
      /\ Registered(n) /\ jobs[n].status = "failed"
      /\ reply.processing_id = n =>
           /\ reply.handler = "process"
                => reply.status_code = 202 /\ reply.status = "failed"
           /\ reply.handler = "status"
                => reply.status_code = 200 /\ reply.status = "failed"
           /\ reply.handler = "download"
                => reply.status_code = 400 /\ reply.download_url = None

\* A download request for a job whose upload failed has been refused.
C29_Witness ==
  \E n \in ProcessingIds :
    /\ ProcessingFailed(n) /\ task[n].failure = "upload"
    /\ reply.handler = "download" /\ reply.processing_id = n
    /\ reply.status_code = 400

\* ------------------------------------------------------------------- C30
Handled == server_call.request.method # ""

\* The request's params cannot be made into the params model of the method.
NoUsableParams(request) ==
  \/ /\ request.method = "tools/call"
     /\ request.params.isNone \/ request.params.name = None
  \/ /\ request.method = "resources/read"
     /\ request.params.isNone \/ request.params.uri = None

\* C30: handle_request answers every request with a response that carries
\* the request's id and exactly one of result and error: a supported method
\* whose params can be read yields a result, an unsupported method error
\* -32601, a tools/call or resources/read whose params are missing error
\* -32603, and a tools/call naming an unregistered tool a result with isError
\* true for which _execute_tool was not invoked.
C30_HandleRequestTotal ==
  LET request == server_call.request
      response == server_call.response
  IN Handled =>
       /\ response.id = request.id
       /\ (response.result # NoResult) # (response.error # 0)
       /\ request.method \notin SupportedMethods
            => response.error = METHOD_NOT_FOUND
       /\ request.method \in SupportedMethods /\ NoUsableParams(request)
            => response.error = INTERNAL_ERROR
       /\ request.method \in SupportedMethods /\ ~NoUsableParams(request)
            => response.error = 0
       /\ ( /\ request.method = "tools/call" /\ ~NoUsableParams(request)
            /\ request.params.name \notin RegisteredTools )
            => response.result.isError /\ ~server_call.invoked

\* A tools/call for a tool the server never registered has been answered.
C30_Witness ==
  /\ server_call.request.method = "tools/call"
  /\ server_call.request.params.name = << "drop_table" >>
  /\ server_call.response.result.isError
  /\ ~server_call.invoked

====
